---- MODULE Spec2Model ----
(***************************************************************************)
(* Model of the config-options-custom Sphinx extension                     *)
(* (canonical-sphinx-extensions/config-options-custom/__init__.py):        *)
(* the option directive (ConfigOption.run), the domain registry            *)
(* (ConfigDomain.add_option, resolve_xref, merge_domaindata) and the       *)
(* option index (ConfigIndex.generate).                                    *)
(*                                                                         *)
(* Python strings are sequences of code points, so that concatenation,     *)
(* str.partition, str.replace and the lexicographic order used by sorted() *)
(* are computed the way Python computes them.                              *)
(***************************************************************************)
EXTENDS Integers, Sequences, FiniteSets, TLC

\* ------------------------------------------------------------------ bounds
\* Longest registry (self.data["config_options"]) the model builds.
MaxReg == 2
\* Longest otherdata["config_options"] handed to merge_domaindata.
MaxOther == 2
\* Longest registry the write phase (cross-references, index) starts from.
MaxIndexed == 3

\* --------------------------------------------------------- string literals
EmptyStr == <<>>
\* ":"
Colon == <<58>>
\* "-"
Dash == <<45>>
\* "#"
Hash == <<35>>
\* "server"
ServerScope == <<115, 101, 114, 118, 101, 114>>
\* "server:"
ServerPrefix == ServerScope \o Colon
\* "option"
OptionTyp == <<111, 112, 116, 105, 111, 110>>
\* "<title>"
TitleOpen == <<60, 116, 105, 116, 108, 101, 62>>
\* "</title>"
TitleClose == <<60, 47, 116, 105, 116, 108, 101, 62>>
\* '<code class="xref">'
CodeXref == <<60, 99, 111, 100, 101, 32, 99, 108, 97, 115, 115, 61, 34,
              120, 114, 101, 102, 34, 62>>
\* '<code class="literal">'
CodeLiteral == <<60, 99, 111, 100, 101, 32, 99, 108, 97, 115, 115, 61, 34,
                 108, 105, 116, 101, 114, 97, 108, 34, 62>>
\* ': <code class="literal">'
ExtraSep == <<58, 32>> \o CodeLiteral
\* "</code>"
CodeClose == <<60, 47, 99, 111, 100, 101, 62>>

\* ------------------------------------------------------- Python str helpers
\* s.find(pat) + 1: the first index where pat occurs in s, 0 when it does not.
Find(s, pat) ==
    LET hits == {i \in 1..(Len(s) - Len(pat) + 1) :
                    SubSeq(s, i, i + Len(pat) - 1) = pat}
    IN IF hits = {} THEN 0 ELSE CHOOSE i \in hits : \A j \in hits : i <= j

\* pat in s
Contains(s, pat) == Find(s, pat) # 0

\* s.partition(sep): (before, sep, after) at the first sep, (s, "", "") without.
Partition(s, sep) ==
    LET i == Find(s, sep)
    IN IF i = 0 THEN <<s, EmptyStr, EmptyStr>>
       ELSE <<SubSeq(s, 1, i - 1), sep, SubSeq(s, i + Len(sep), Len(s))>>

\* s.replace(old, new): every non-overlapping occurrence, left to right.
RECURSIVE Replace(_, _, _)
Replace(s, old, new) ==
    LET i == Find(s, old)
    IN IF i = 0 THEN s
       ELSE SubSeq(s, 1, i - 1) \o new
            \o Replace(SubSeq(s, i + Len(old), Len(s)), old, new)

\* a < b for Python str: lexicographic by code point, a proper prefix is less.
RECURSIVE StrLess(_, _)
StrLess(a, b) ==
    IF b = <<>> THEN FALSE
    ELSE IF a = <<>> THEN TRUE
    ELSE IF Head(a) # Head(b) THEN Head(a) < Head(b)
    ELSE StrLess(Tail(a), Tail(b))

\* (a1, a2) < (b1, b2) for Python tuples of two str.
PairLess(a, b) == StrLess(a[1], b[1]) \/ (a[1] = b[1] /\ StrLess(a[2], b[2]))

\* x in seq
InSeq(x, seq) == \E i \in 1..Len(seq) : seq[i] = x

\* -------------------------------------------------------- warning messages
\* "The option fields for the "
MsgFieldsFor ==
    <<84, 104, 101, 32, 111, 112, 116, 105, 111, 110, 32, 102, 105, 101,
      108, 100, 115, 32, 102, 111, 114, 32, 116, 104, 101, 32>>
\* " option could not be parsed. "
MsgNotParsed ==
    <<32, 111, 112, 116, 105, 111, 110, 32, 99, 111, 117, 108, 100, 32,
      110, 111, 116, 32, 98, 101, 32, 112, 97, 114, 115, 101, 100, 46,
      32>>
\* "No output was generated."
MsgNoOutput ==
    <<78, 111, 32, 111, 117, 116, 112, 117, 116, 32, 119, 97, 115, 32,
      103, 101, 110, 101, 114, 97, 116, 101, 100, 46>>
\* "Could not find target "
MsgNotFound ==
    <<67, 111, 117, 108, 100, 32, 110, 111, 116, 32, 102, 105, 110, 100,
      32, 116, 97, 114, 103, 101, 116, 32>>
\* " in "
MsgIn == <<32, 105, 110, 32>>

\* ------------------------------------------------------------ input domains
\* Option identifiers (first directive argument): "a", "b".
KeyA == <<97>>
KeyB == <<98>>
\* Scopes given as second directive argument: "x-a", "x-b".
ScopeXA == <<120, 45, 97>>
ScopeXB == <<120, 45, 98>>
\* self.arguments: the identifier, optionally followed by the scope:
\* ("a"), ("a", "x-a"), ("a", "x-b"), ("b", "x-a").
Arguments ==
    {<<KeyA>>, <<KeyA, ScopeXA>>, <<KeyA, ScopeXB>>, <<KeyB, ScopeXA>>}
\* Document names: "d1", "d2".
Doc1 == <<100, 49>>
Doc2 == <<100, 50>>
Docs == {Doc1, Doc2}
\* Raw text of a directive option: "t".
OptText == <<116>>
\* self.options: the directive options present, each with its raw text.
OptionMaps ==
    {[f \in S |-> OptText] :
        S \in {{}, {"summary"}, {"summary", "description", "unit"}}}
\* str(env.titles[d]) of the documents of the build: "<title>A</title>" and
\* '<title><code class="xref">B</code></title>'.
TitleA == TitleOpen \o <<65>> \o TitleClose
TitleB == TitleOpen \o CodeXref \o <<66>> \o CodeClose \o TitleClose
\* env.titles: every document of the build, or d1 alone (d2 excluded).
TitleMaps ==
    {[d \in Docs |-> IF d = Doc1 THEN TitleA ELSE TitleB],
     [d \in {Doc1} |-> TitleA]}
\* Reference targets of the option role: "a", "server:a", "b", "x-a:b".
Targets == {KeyA, ServerPrefix \o KeyA, KeyB, ScopeXA \o Colon \o KeyB}

\* ---------------------------------------------------------------- state
VARIABLES
    registry,   \* self.data["config_options"] of the domain
    titles,     \* env.titles, as str(title) per document of the build
    call,       \* the operation that ran last, with its inputs
    ret,        \* what that operation returned
    warned,     \* the warnings that operation logged
    workers,    \* parallel build: the registry of each worker process
    owner,      \* parallel build: the worker that reads each document
    merged,     \* parallel build: the workers merged into the registry
    serial      \* the registry of a serial build of the same declarations

vars == <<registry, titles, call, ret, warned, workers, owner, merged, serial>>
parVars == <<workers, owner, merged, serial>>

\* ------------------------------------------------------------ ConfigDomain
\* The tuple add_option stores.
OptionRecord(key, scope, docname) ==
    <<key, key, OptionTyp, docname, scope \o Colon \o key, 0>>

\* ConfigDomain.add_option
AddOption(data, key, scope, docname) ==
    Append(data, OptionRecord(key, scope, docname))

\* A merge_domaindata that lost its "not in" test: every option of
\* otherdata is appended.
MergeData_NoFilter(data, other) == data \o other

\* ConfigDomain.merge_domaindata: each option of otherdata not yet in
\* self.data is appended, in otherdata's order.
RECURSIVE MergeData(_, _)
MergeData(data, other) ==
    IF other = <<>> THEN data
    ELSE MergeData(IF InSeq(Head(other), data) THEN data
                   ELSE Append(data, Head(other)),
                   Tail(other))

\* A resolve_xref that lost its default scope.
NormaliseTarget_NoDefault(target) == target

\* resolve_xref: the scope defaults to "server".
NormaliseTarget(target) ==
    IF ~Contains(target, Colon) THEN ServerPrefix \o target ELSE target

\* resolve_xref: the (key, docname, anchor) of the records that match.
RECURSIVE Match(_, _)
Match(data, target) ==
    IF data = <<>> THEN <<>>
    ELSE (IF Head(data)[5] = target /\ Head(data)[3] = OptionTyp
          THEN <<<<Head(data)[1], Head(data)[4], Head(data)[5]>>>>
          ELSE <<>>)
         \o Match(Tail(data), target)

\* make_refnode(builder, fromdocname, todocname, targ, child=literal(title))
\* with the class "configref" appended.
RefNode(fromdocname, todocname, targ, title) ==
    [tag |-> "reference", fromdoc |-> fromdocname, todoc |-> todocname,
     refid |-> targ, child |-> [tag |-> "literal", text |-> title],
     classes |-> <<"configref">>]

\* A resolve_xref whose warning names the target as written in the reference.
ResolveXrefResult_RawTarget(data, fromdocname, target) ==
    LET t == NormaliseTarget(target)
        match == Match(data, t)
    IN IF Len(match) > 0
       THEN <<[type |-> "node",
               value |-> <<RefNode(fromdocname, match[1][2], match[1][3],
                                   match[1][1])>>],
              <<>>>>
       ELSE <<[type |-> "list", value |-> <<>>],
              <<MsgNotFound \o target \o MsgIn \o fromdocname>>>>

\* ConfigDomain.resolve_xref: <<returned value, warnings logged>>.
ResolveXrefResult(data, fromdocname, target) ==
    LET t == NormaliseTarget(target)
        match == Match(data, t)
    IN IF Len(match) > 0
       THEN <<[type |-> "node",
               value |-> <<RefNode(fromdocname, match[1][2], match[1][3],
                                   match[1][1])>>],
              <<>>>>
       ELSE <<[type |-> "list", value |-> <<>>],
              <<MsgNotFound \o t \o MsgIn \o fromdocname>>>>

\* ------------------------------------------------------------- ConfigIndex
\* A sort by (anchor, display name): by scope first.
SortKey_AnchorFirst(option) == <<option[5], option[2]>>

\* The key generate sorts the options by: (option[1], option[4]) in Python's
\* 0-based indices, the display name and the anchor.
SortKey(option) == <<option[2], option[5]>>

\* One step of sorted(): x goes after every element whose key is not greater
\* than its own (the sort is stable).
RECURSIVE InsertOption(_, _)
InsertOption(sorted, x) ==
    IF sorted = <<>> THEN <<x>>
    ELSE IF PairLess(SortKey(x), SortKey(Head(sorted))) THEN <<x>> \o sorted
    ELSE <<Head(sorted)>> \o InsertOption(Tail(sorted), x)

\* sorted(options, key=lambda option: (option[1], option[4]))
RECURSIVE SortedOptions(_)
SortedOptions(options) ==
    IF options = <<>> THEN <<>>
    ELSE InsertOption(SortedOptions(SubSeq(options, 1, Len(options) - 1)),
                      options[Len(options)])

\* anchor.partition(":")[0].partition("-")
ScopeOf(anchor) == Partition(Partition(anchor, Colon)[1], Dash)

\* (scope[0], dispname, docname, anchor)
FullName(option) ==
    <<ScopeOf(option[5])[1], option[2], option[4], option[5]>>

\* A first loop with its branches swapped: the full names met a first time.
Duplicates_FirstMet(options, dispnames, duplicates) ==
    {FullName(options[i]) : i \in 1..Len(options)}

\* The first loop of generate: the full names met a second time.
RECURSIVE Duplicates(_, _, _)
Duplicates(options, dispnames, duplicates) ==
    IF options = <<>> THEN duplicates
    ELSE LET fullname == FullName(Head(options))
         IN IF fullname \in dispnames
            THEN Duplicates(Tail(options), dispnames,
                            duplicates \cup {fullname})
            ELSE Duplicates(Tail(options), dispnames \cup {fullname},
                            duplicates)

\* A title lookup whose default is an empty title node, not "".
TitleOf_DefaultTitle(titlemap, docname) ==
    IF docname \in DOMAIN titlemap THEN titlemap[docname]
    ELSE TitleOpen \o TitleClose

\* str(self.domain.env.titles.get(docname, ""))
TitleOf(titlemap, docname) ==
    IF docname \in DOMAIN titlemap THEN titlemap[docname] ELSE EmptyStr

\* The extra text of a row whose document has the title text `title`.
Extra(option, title, duplicates) ==
    LET scope == ScopeOf(option[5])
        stripped == Replace(Replace(title, TitleOpen, EmptyStr),
                            TitleClose, EmptyStr)
    IN IF FullName(option) \in duplicates
       THEN IF scope[3] # EmptyStr
            THEN Replace(stripped, CodeXref, CodeLiteral)
                 \o ExtraSep \o scope[3] \o CodeClose
            ELSE stripped
       ELSE EmptyStr

\* (dispname, 0, docname, anchor, extra, "", "")
NewLine(option, extra) ==
    <<option[2], 0, option[4], option[5], extra, EmptyStr, EmptyStr>>

\* if new_line not in content[prefix]: content[prefix].append(new_line),
\* content being a defaultdict(list) kept here in insertion order of its keys.
AddLine(content, prefix, line) ==
    IF \E i \in 1..Len(content) : content[i][1] = prefix
    THEN [i \in 1..Len(content) |->
            IF content[i][1] = prefix /\ ~InSeq(line, content[i][2])
            THEN <<prefix, Append(content[i][2], line)>>
            ELSE content[i]]
    ELSE Append(content, <<prefix, <<line>>>>)

\* The second loop of generate.
RECURSIVE Content(_, _, _, _)
Content(options, titlemap, duplicates, content) ==
    IF options = <<>> THEN content
    ELSE LET option == Head(options)
             title == TitleOf(titlemap, option[4])
         IN IF title = EmptyStr
            THEN Content(Tail(options), titlemap, duplicates, content)
            ELSE Content(Tail(options), titlemap, duplicates,
                         AddLine(content, ScopeOf(option[5])[1],
                                 NewLine(option,
                                         Extra(option, title, duplicates))))

\* One step of sorted(content.items()): the keys of a dict are distinct, so
\* the prefix alone decides the order.
RECURSIVE InsertGroup(_, _)
InsertGroup(sorted, g) ==
    IF sorted = <<>> THEN <<g>>
    ELSE IF StrLess(g[1], Head(sorted)[1]) THEN <<g>> \o sorted
    ELSE <<Head(sorted)>> \o InsertGroup(Tail(sorted), g)

\* sorted(content.items())
RECURSIVE SortedContent(_)
SortedContent(content) ==
    IF content = <<>> THEN <<>>
    ELSE InsertGroup(SortedContent(SubSeq(content, 1, Len(content) - 1)),
                     content[Len(content)])

\* ConfigIndex.generate: (content, True)
Generate(data, titlemap) ==
    LET options == SortedOptions(data)
        duplicates == Duplicates(options, {}, {})
    IN <<SortedContent(Content(options, titlemap, duplicates, <<>>)), TRUE>>

\* ------------------------------------------------------------ ConfigOption
\* ConfigOption.optional_fields, in declaration order: field -> label.
OptionalFields ==
    <<"unit", "category_id", "certification-status", "purpose", "steps",
      "verification", "description", "after-suspend", "environ", "user",
      "plugin", "requires", "template-id", "template-summary",
      "template-description", "template-resource", "template-filter",
      "value-type", "value-units", "resource-key", "prompt">>

\* ConfigOption.has_id_repeat
has_id_repeat == FALSE

\* ConfigOption.shortdesc_key
shortdesc_key == "summary"

\* parseOption(obj, option): an inline node holding the parsed text.
ParseOption(option) == [tag |-> "inline", parsed |-> option]

\* A scope read from the wrong argument.
RunScope_WrongArgument(arguments) ==
    IF Len(arguments) > 1 THEN arguments[1] ELSE ServerScope

\* scope = "server", or the second argument when there is one.
RunScope(arguments) ==
    IF Len(arguments) > 1 THEN arguments[2] ELSE ServerScope

\* targetID = scope + ":" + self.arguments[0]
TargetID(arguments) == RunScope(arguments) \o Colon \o arguments[1]

\* The rows of the details table: the identifier again when has_id_repeat,
\* then one row per optional field present, in the order of optional_fields.
RECURSIVE FieldRows(_, _)
FieldRows(fields, options) ==
    IF fields = <<>> THEN <<>>
    ELSE LET row == [tag |-> "row", field |-> Head(fields),
                     value |-> ParseOption(options[Head(fields)])]
         IN (IF Head(fields) \in DOMAIN options THEN <<row>> ELSE <<>>)
            \o FieldRows(Tail(fields), options)

DetailRows(arguments, options) ==
    (IF has_id_repeat
     THEN <<[tag |-> "row", field |-> "ID: ",
             value |-> [tag |-> "literal", parsed |-> arguments[1]]]>>
     ELSE <<>>)
    \o FieldRows(OptionalFields, options)

\* [targetNode, newNode]: the target bound to the anchor and the
\* "configoption" container (first line and details).
RunNodes(arguments, options) ==
    <<[tag |-> "target", ids |-> <<TargetID(arguments)>>],
      [tag |-> "container", classes |-> <<"configoption">>,
       key |-> arguments[1],
       shortDesc |-> ParseOption(options[shortdesc_key]),
       refuri |-> Hash \o TargetID(arguments),
       rows |-> DetailRows(arguments, options)]>>

\* A run that registers the option before it looks for the short
\* description.
RunResult_RegistersFirst(data, arguments, options, docname) ==
    IF shortdesc_key \notin DOMAIN options
    THEN <<AddOption(data, arguments[1], RunScope(arguments), docname), <<>>,
           <<MsgFieldsFor \o arguments[1] \o MsgNotParsed \o MsgNoOutput>>>>
    ELSE <<AddOption(data, arguments[1], RunScope(arguments), docname),
           RunNodes(arguments, options), <<>>>>

\* ConfigOption.run: <<registry afterwards, returned nodes, warnings logged>>.
RunResult(data, arguments, options, docname) ==
    IF shortdesc_key \notin DOMAIN options
    THEN <<data, <<>>,
           <<MsgFieldsFor \o arguments[1] \o MsgNotParsed \o MsgNoOutput>>>>
    ELSE <<AddOption(data, arguments[1], RunScope(arguments), docname),
           RunNodes(arguments, options), <<>>>>

\* ------------------------------------------------------------------ actions
\* Every record add_option can store.
Records ==
    {OptionRecord(a[1], RunScope(a), d) : a \in Arguments, d \in Docs}

RECURSIVE SeqsUpTo(_, _)
SeqsUpTo(S, n) ==
    IF n = 0 THEN {<<>>}
    ELSE LET shorter == SeqsUpTo(S, n - 1)
         IN shorter \cup {Append(q, x) : q \in shorter, x \in S}

\* The registries another build process can hand to merge_domaindata.
OtherDatas == SeqsUpTo(Records, MaxOther)

\* A build with no worker processes.
NoWorkers ==
    /\ workers = <<>>
    /\ owner = <<>>
    /\ merged = {}
    /\ serial = <<>>

\* The read phase of a build starts with an empty registry.
Init ==
    /\ registry = <<>>
    /\ titles = <<>>
    /\ call = [op |-> "init"]
    /\ ret = [type |-> "none", value |-> <<>>]
    /\ warned = <<>>
    /\ NoWorkers

\* The option directive runs in document docname.
Run(arguments, options, docname) ==
    LET r == RunResult(registry, arguments, options, docname)
    IN /\ Len(r[1]) <= MaxReg
       /\ registry' = r[1]
       /\ ret' = [type |-> "list", value |-> r[2]]
       /\ warned' = r[3]
       /\ call' = [op |-> "run", arguments |-> arguments,
                   options |-> options, docname |-> docname]
       /\ UNCHANGED <<titles, parVars>>

\* The registry of another build process is merged into this one.
MergeDomaindata(otherdata) ==
    /\ Len(MergeData(registry, otherdata)) <= MaxReg
    /\ registry' = MergeData(registry, otherdata)
    /\ ret' = [type |-> "none", value |-> <<>>]
    /\ warned' = <<>>
    /\ call' = [op |-> "merge_domaindata", otherdata |-> otherdata]
    /\ UNCHANGED <<titles, parVars>>

Next ==
    \/ \E a \in Arguments, o \in OptionMaps, d \in Docs : Run(a, o, d)
    \/ \E other \in OtherDatas : MergeDomaindata(other)

Spec == Init /\ [][Next]_vars

\* The write phase: every document is read and every registry merged; the
\* registry is any the read phase can have built, the titles are collected.
InitWrite ==
    /\ registry \in SeqsUpTo(Records, MaxIndexed)
    /\ titles \in TitleMaps
    /\ call = [op |-> "init"]
    /\ ret = [type |-> "none", value |-> <<>>]
    /\ warned = <<>>
    /\ NoWorkers

\* The option role is resolved for a reference in document fromdocname.
ResolveXref(fromdocname, target) ==
    LET r == ResolveXrefResult(registry, fromdocname, target)
    IN /\ ret' = r[1]
       /\ warned' = r[2]
       /\ call' = [op |-> "resolve_xref", fromdocname |-> fromdocname,
                   target |-> target]
       /\ UNCHANGED <<registry, titles, parVars>>

\* The option index is generated.
GenerateIndex ==
    /\ ret' = [type |-> "index", value |-> Generate(registry, titles)]
    /\ warned' = <<>>
    /\ call' = [op |-> "generate"]
    /\ UNCHANGED <<registry, titles, parVars>>

NextWrite ==
    \/ \E d \in Docs, t \in Targets : ResolveXref(d, t)
    \/ GenerateIndex

SpecWrite == InitWrite /\ [][NextWrite]_vars

\* ----------------------------------------------------------- parallel build
\* The worker processes of a parallel build.
Workers == {1, 2}

\* A parallel build: the documents are dealt to the workers, every registry
\* is empty, and every document of the build gets a title.
InitPar ==
    /\ registry = <<>>
    /\ titles = [d \in Docs |-> IF d = Doc1 THEN TitleA ELSE TitleB]
    /\ call = [op |-> "init"]
    /\ ret = [type |-> "none", value |-> <<>>]
    /\ warned = <<>>
    /\ workers = [w \in Workers |-> <<>>]
    /\ owner \in [Docs -> Workers]
    /\ merged = {}
    /\ serial = <<>>

\* The option directive runs in document docname, in the worker that reads
\* the document; the serial build, which reads the documents in the order of
\* their names, runs the same declaration.
WorkerRun(arguments, options, docname) ==
    LET w == owner[docname]
        r == RunResult(workers[w], arguments, options, docname)
    IN /\ w \notin merged
       /\ \A i \in 1..Len(serial) : ~StrLess(docname, serial[i][4])
       /\ Len(serial) < MaxReg
       /\ workers' = [workers EXCEPT ![w] = r[1]]
       /\ serial' = RunResult(serial, arguments, options, docname)[1]
       /\ ret' = [type |-> "list", value |-> r[2]]
       /\ warned' = r[3]
       /\ call' = [op |-> "run", arguments |-> arguments,
                   options |-> options, docname |-> docname]
       /\ UNCHANGED <<registry, titles, owner, merged>>

\* A worker has read its documents: its registry is merged into the main
\* process's.
MergeWorker(w) ==
    /\ w \notin merged
    /\ registry' = MergeData(registry, workers[w])
    /\ merged' = merged \cup {w}
    /\ ret' = [type |-> "none", value |-> <<>>]
    /\ warned' = <<>>
    /\ call' = [op |-> "merge_domaindata", otherdata |-> workers[w]]
    /\ UNCHANGED <<titles, workers, owner, serial>>

NextPar ==
    \/ \E a \in Arguments, o \in OptionMaps, d \in Docs : WorkerRun(a, o, d)
    \/ \E w \in Workers : MergeWorker(w)

SpecPar == InitPar /\ [][NextPar]_vars

\* ==================================================================== claims
\* Helpers of the statements below, written without the model's operators.

\* The indices of the code point ch in s.
Places(s, ch) == {i \in 1..Len(s) : s[i] = ch}
\* The text of s before its first ch (all of s when ch is not in it).
Before(s, ch) ==
    IF Places(s, ch) = {} THEN s
    ELSE SubSeq(s, 1, (CHOOSE i \in Places(s, ch) :
                          \A j \in Places(s, ch) : i <= j) - 1)
\* The text of s after its first ch (empty when ch is not in it).
After(s, ch) ==
    IF Places(s, ch) = {} THEN <<>>
    ELSE SubSeq(s, (CHOOSE i \in Places(s, ch) :
                       \A j \in Places(s, ch) : i <= j) + 1, Len(s))
\* The scope of a record (its anchor up to the first ":"), the prefix of the
\* scope (up to its first "-") and its suffix (after its first "-").
AnchorScope(anchor) == Before(anchor, 58)
ScopePrefix(anchor) == Before(AnchorScope(anchor), 45)
ScopeSuffix(anchor) == After(AnchorScope(anchor), 45)
\* a < b in lexical order of code points.
LexLess(a, b) ==
    \E i \in 1..Len(b) :
        /\ i <= Len(a) + 1
        /\ \A j \in 1..(i - 1) : a[j] = b[j]
        /\ (i = Len(a) + 1 \/ a[i] < b[i])
\* (a1, a2) <= (b1, b2) in lexical order.
LexPairLeq(a1, a2, b1, b2) ==
    \/ LexLess(a1, b1)
    \/ a1 = b1 /\ (LexLess(a2, b2) \/ a2 = b2)
\* How many times x occurs in seq.
Count(x, seq) == Cardinality({i \in 1..Len(seq) : seq[i] = x})
\* The rearrangements of seq.
PermsOf(seq) ==
    {q \in [1..Len(seq) -> {seq[i] : i \in 1..Len(seq)}] :
        \A i \in 1..Len(seq) : Count(seq[i], q) = Count(seq[i], seq)}
\* The groups of the index the last call generated.
IndexGroups == ret.value[1]

\* C1: a run of the option directive whose options hold "summary" appends
\* exactly one record, (key, key, "option", current document,
\* scope + ":" + key, 0) with scope the second argument or "server", to the
\* end of the registry and leaves the records before it as they were.
C1_RunRegistersOneRecord ==
    [][(call'.op = "run" /\ "summary" \in DOMAIN call'.options)
       => LET key == call'.arguments[1]
              scope == IF Len(call'.arguments) = 2
                       THEN call'.arguments[2]
                       ELSE <<115, 101, 114, 118, 101, 114>>
          IN registry' = registry \o
                <<<<key, key, OptionTyp, call'.docname,
                    scope \o <<58>> \o key, 0>>>>]_vars

\* C1 witness: the directive ran with "summary" and the scope "x-b", and
\* then with "summary" and no scope: the registry holds "x-b:a", "server:a".
C1_Witness ==
    /\ call.op = "run"
    /\ "summary" \in DOMAIN call.options
    /\ Len(call.arguments) = 1
    /\ Len(registry) = 2
    /\ registry[1][5] = ScopeXB \o Colon \o KeyA
    /\ registry[2][5] = ServerPrefix \o KeyA

\* C2: a run of the option directive whose options do not hold "summary"
\* leaves the registry unchanged, logs exactly one warning and returns no
\* node.
C2_MissingSummaryRegistersNothing ==
    [][(call'.op = "run" /\ "summary" \notin DOMAIN call'.options)
       => /\ registry' = registry
          /\ Len(warned') = 1
          /\ ret'.type = "list"
          /\ ret'.value = <<>>]_vars

\* C2 witness: the directive ran without "summary" (with no option at all)
\* while the registry held records.
C2_Witness ==
    /\ call.op = "run"
    /\ DOMAIN call.options = {}
    /\ Len(registry) = 2
    /\ Len(warned) = 1

\* C5: after merge_domaindata(B) a second merge of the same B changes
\* nothing, and a merge keeps the records the registry held, in their order,
\* at its front.
C5_MergeIdempotent ==
    [][call'.op = "merge_domaindata"
       => /\ MergeData(registry', call'.otherdata) = registry'
          /\ Len(registry') >= Len(registry)
          /\ SubSeq(registry', 1, Len(registry)) = registry]_vars

\* C5 witness: a merge of B = (x, y) has left the registry (y, x): y, which
\* the registry held, was filtered, and x stands at the end.
C5_Witness ==
    /\ call.op = "merge_domaindata"
    /\ Len(call.otherdata) = 2
    /\ call.otherdata[1] # call.otherdata[2]
    /\ Len(registry) = 2
    /\ registry[1] = call.otherdata[2]
    /\ registry[2] = call.otherdata[1]

\* The indices of the records a reference to target resolves to: those of
\* kind "option" whose anchor is the target, "server:" put before a target
\* that holds no ":".
Hits(target) ==
    LET t == IF Places(target, 58) = {}
             THEN <<115, 101, 114, 118, 101, 114, 58>> \o target
             ELSE target
    IN {i \in 1..Len(registry) :
            registry[i][5] = t /\ registry[i][3] = OptionTyp}

\* C3: a reference whose normalised target is the anchor of a record
\* resolves to a link to the document and anchor of the first such record in
\* insertion order, with the record's key as text; and a target without ":"
\* resolves exactly as "server:" followed by the target does.
C3_ResolveFirstMatch ==
    /\ (call.op = "resolve_xref" /\ Hits(call.target) # {})
       => LET first == CHOOSE i \in Hits(call.target) :
                           \A j \in Hits(call.target) : i <= j
          IN /\ ret.type = "node"
             /\ Len(ret.value) = 1
             /\ ret.value[1].todoc = registry[first][4]
             /\ ret.value[1].refid = registry[first][5]
             /\ ret.value[1].child.text = registry[first][1]
             /\ ret.value[1].fromdoc = call.fromdocname
             /\ warned = <<>>
    /\ \A d \in Docs : \A t \in {KeyA, KeyB} :
           ResolveXrefResult(registry, d, t)
           = ResolveXrefResult(registry, d,
                               <<115, 101, 114, 118, 101, 114, 58>> \o t)

\* C3 witness: the reference "a" was resolved while two records of different
\* documents had the anchor "server:a", the second document's first.
C3_Witness ==
    /\ call.op = "resolve_xref"
    /\ call.target = KeyA
    /\ Cardinality(Hits(call.target)) >= 2
    /\ \E i \in Hits(call.target) : registry[i][4] = Doc1
    /\ \A i \in Hits(call.target) : \A j \in Hits(call.target) :
           (i < j) => (registry[i][4] = Doc2)
    /\ ret.type = "node"

\* C4: a reference whose normalised target is the anchor of no record
\* returns an empty list, logs exactly one warning, "Could not find target "
\* with the normalised target and the referencing document, and leaves the
\* registry unchanged.
C4_UnresolvedWarnsOnce ==
    [][(call'.op = "resolve_xref" /\ Hits(call'.target) = {})
       => /\ ret'.type = "list"
          /\ ret'.value = <<>>
          /\ warned' =
                <<MsgNotFound
                  \o (IF Places(call'.target, 58) = {}
                      THEN <<115, 101, 114, 118, 101, 114, 58>>
                           \o call'.target
                      ELSE call'.target)
                  \o MsgIn \o call'.fromdocname>>
          /\ registry' = registry]_vars

\* C4 witness: the reference "b" (no record has the anchor "server:b") was
\* resolved against a registry that holds records.
C4_Witness ==
    /\ call.op = "resolve_xref"
    /\ call.target = KeyB
    /\ Len(registry) >= 2
    /\ Len(warned) = 1
    /\ ret.value = <<>>

\* C6: the index generated from any rearrangement of the registry is the
\* index generated from the registry.
C6_IndexStableUnderReordering ==
    call.op = "generate"
    => \A p \in PermsOf(registry) : Generate(p, titles) = ret.value

\* The title text of a document, without the <title> tags.
TitleText(docname) == IF docname = Doc1 THEN <<65>> ELSE CodeXref \o <<66>> \o CodeClose
\* The rows of the generated index for the record (key, docname, anchor), in
\* the group of the record's scope prefix: <<group, row>> index pairs.
RowsOf(key, docname, anchor) ==
    {gr \in {<<g, r>> : g \in 1..Len(IndexGroups), r \in 1..MaxIndexed + 1} :
        /\ gr[2] <= Len(IndexGroups[gr[1]][2])
        /\ IndexGroups[gr[1]][1] = ScopePrefix(anchor)
        /\ IndexGroups[gr[1]][2][gr[2]][1] = key
        /\ IndexGroups[gr[1]][2][gr[2]][3] = docname
        /\ IndexGroups[gr[1]][2][gr[2]][4] = anchor}

\* C7: every row of the generated index names a document that has a
\* non-empty title, every record whose document has a title has a row in
\* the group of its scope prefix, and nothing is logged.
C7_UntitledDocumentsDropped ==
    call.op = "generate"
    => /\ \A g \in 1..Len(IndexGroups) :
              \A r \in 1..Len(IndexGroups[g][2]) :
                  /\ IndexGroups[g][2][r][3] \in DOMAIN titles
                  /\ titles[IndexGroups[g][2][r][3]] # <<>>
       /\ \A i \in 1..Len(registry) :
              registry[i][4] \in DOMAIN titles
              => RowsOf(registry[i][2], registry[i][4], registry[i][5]) # {}
       /\ warned = <<>>

\* C7 witness: the index was generated from a registry with a record of the
\* document without a title and a record of the document with one.
C7_Witness ==
    /\ call.op = "generate"
    /\ \E i \in 1..Len(registry) : registry[i][4] \notin DOMAIN titles
    /\ \E i \in 1..Len(registry) : registry[i][4] \in DOMAIN titles
    /\ Len(IndexGroups) >= 1

\* The groups of the index are in ascending order of their prefix, one
\* group per prefix, and every row is in the group of its scope prefix.
GroupsAscending ==
    /\ \A g \in 1..Len(IndexGroups) : \A h \in 1..Len(IndexGroups) :
           (g < h) => LexLess(IndexGroups[g][1], IndexGroups[h][1])
    /\ \A g \in 1..Len(IndexGroups) :
           /\ IndexGroups[g][2] # <<>>
           /\ \A r \in 1..Len(IndexGroups[g][2]) :
                  ScopePrefix(IndexGroups[g][2][r][4]) = IndexGroups[g][1]

\* C8 as stated: the groups ascend by scope prefix and the rows of a group
\* ascend by (scope, key).
C8_RowsByScopeThenKey ==
    call.op = "generate"
    => /\ GroupsAscending
       /\ \A g \in 1..Len(IndexGroups) :
              \A r \in 1..Len(IndexGroups[g][2]) :
                  \A q \in 1..Len(IndexGroups[g][2]) :
                      (r < q)
                      => LexPairLeq(AnchorScope(IndexGroups[g][2][r][4]),
                                    IndexGroups[g][2][r][1],
                                    AnchorScope(IndexGroups[g][2][q][4]),
                                    IndexGroups[g][2][q][1])

\* C8 amended: the groups ascend by scope prefix and the rows of a group
\* ascend by (key, anchor): by key first, by anchor among equal keys.
C8_RowsByKeyThenAnchor ==
    call.op = "generate"
    => /\ GroupsAscending
       /\ \A g \in 1..Len(IndexGroups) :
              \A r \in 1..Len(IndexGroups[g][2]) :
                  \A q \in 1..Len(IndexGroups[g][2]) :
                      (r < q)
                      => LexPairLeq(IndexGroups[g][2][r][1],
                                    IndexGroups[g][2][r][4],
                                    IndexGroups[g][2][q][1],
                                    IndexGroups[g][2][q][4])

\* C8 witness: the index holds two groups, and the group "x" holds the row
\* of key "a", scope "x-b" before the row of key "b", scope "x-a".
C8_Witness ==
    /\ call.op = "generate"
    /\ Len(IndexGroups) = 2
    /\ \E g \in 1..Len(IndexGroups) :
           /\ Len(IndexGroups[g][2]) = 2
           /\ IndexGroups[g][2][1][4] = ScopeXB \o Colon \o KeyA
           /\ IndexGroups[g][2][2][4] = ScopeXA \o Colon \o KeyB

\* How many records of the registry are (key, key, "option", docname,
\* anchor, 0).
Occurrences(key, docname, anchor) ==
    Cardinality({i \in 1..Len(registry) :
                    /\ registry[i][2] = key
                    /\ registry[i][4] = docname
                    /\ registry[i][5] = anchor})

C10_ParallelEqualsSerial ==
    (merged = Workers)
    => /\ \A x \in Records : Count(x, registry) = Count(x, serial)
       /\ Generate(registry, titles) = Generate(serial, titles)
       /\ \A d \in Docs : \A t \in Targets :
              ResolveXrefResult(registry, d, t)
              = ResolveXrefResult(serial, d, t)

====
